---- MODULE Spec2Model ----
(***************************************************************************)
(* SPConverter: main.cpp (path planning, directory scan, batch loop) and   *)
(* converter.cpp (Converter::convert and copyFile) as a state machine.     *)
(* Paths are strings, decomposed the way std::filesystem::path decomposes  *)
(* them on POSIX; the file system, libsndfile and the resampler answer the *)
(* calls the code makes of them.                                           *)
(***************************************************************************)
EXTENDS Integers, Sequences, FiniteSets, TLC

(***************************************************************************)
(* Bounds of the model.                                                    *)
(***************************************************************************)
\* the largest frame count a source header declares
MaxFrames == 1
\* the largest number of eligible files under a scanned directory
MaxEligible == 2

(***************************************************************************)
(* Program constants.                                                      *)
(***************************************************************************)
\* converter.cpp:79  sfinfo.samplerate = 48000
TargetRate == 48000
\* converter.cpp:80  sfinfo.channels = 2
TargetChannels == 2
\* main.cpp:19  allowedExtensions
allowedExtensions == <<".wav", ".flac", ".ogg", ".mp3">>

(***************************************************************************)
(* std::filesystem::path on strings (POSIX, generic format).               *)
(***************************************************************************)
Ch(s, i) == SubSeq(s, i, i)

MaxOf(S) == CHOOSE m \in S : \A n \in S : n <= m

\* index of the rightmost occurrence of character c in s, 0 when there is none
LastIndexOf(s, c) == MaxOf({0} \cup {i \in 1..Len(s) : Ch(s, i) = c})

\* path::filename(): what follows the last separator (empty for "r/")
Filename(p) == SubSeq(p, LastIndexOf(p, "/") + 1, Len(p))

\* path::parent_path(): the path without its last component and without the
\* separators before it; the root directory is its own parent
ParentPath(p) ==
    LET ls == LastIndexOf(p, "/")
        k  == MaxOf({0} \cup {i \in 1..ls : Ch(p, i) # "/"})
    IN  IF ls = 0 THEN ""
        ELSE IF k = 0 THEN "/"
        ELSE SubSeq(p, 1, k)

\* path::extension(): from the rightmost period of the filename, unless the
\* filename is "." or "..", has no period, or its only period is its first
\* character
Extension(p) ==
    LET f == Filename(p)
        d == LastIndexOf(f, ".")
    IN  IF f = "." \/ f = ".." \/ d <= 1 THEN "" ELSE SubSeq(f, d, Len(f))

\* path::stem(): the filename without its extension
Stem(p) ==
    LET f == Filename(p)
    IN  SubSeq(f, 1, Len(f) - Len(Extension(p)))

\* operator/ : an absolute right operand replaces the left one; otherwise a
\* separator is added when the left operand has a filename
Join(p, q) ==
    IF Len(q) > 0 /\ Ch(q, 1) = "/" THEN q
    ELSE IF Len(p) > 0 /\ Ch(p, Len(p)) # "/" THEN p \o "/" \o q
    ELSE p \o q

\* the components of a path between separators, empty ones dropped
RECURSIVE SplitFrom(_, _, _)
SplitFrom(p, i, cur) ==
    IF i > Len(p) THEN (IF cur = "" THEN <<>> ELSE <<cur>>)
    ELSE IF Ch(p, i) = "/"
         THEN (IF cur = "" THEN <<>> ELSE <<cur>>) \o SplitFrom(p, i + 1, "")
         ELSE SplitFrom(p, i + 1, cur \o Ch(p, i))

Split(p) == SplitFrom(p, 1, "")

\* the process's working directory, as components
Cwd == <<"h">>

\* "." dropped and ".." resolved against the component before it
RECURSIVE Normal(_, _)
Normal(comps, acc) ==
    IF comps = <<>> THEN acc
    ELSE IF Head(comps) = "." THEN Normal(Tail(comps), acc)
    ELSE IF Head(comps) = ".."
         THEN Normal(Tail(comps),
                     IF acc = <<>> THEN acc ELSE SubSeq(acc, 1, Len(acc) - 1))
         ELSE Normal(Tail(comps), Append(acc, Head(comps)))

\* fs::weakly_canonical on a tree without symbolic links: the absolute,
\* normalised path, as components below the root directory
Canonical(p) ==
    IF Len(p) > 0 /\ Ch(p, 1) = "/" THEN Normal(Split(p), <<>>)
    ELSE Normal(Cwd \o Split(p), <<>>)

RECURSIVE JoinAll(_, _)
JoinAll(p, comps) ==
    IF comps = <<>> THEN p ELSE JoinAll(Join(p, Head(comps)), Tail(comps))

RECURSIVE CommonPrefixLen(_, _)
CommonPrefixLen(a, b) ==
    IF a = <<>> \/ b = <<>> \/ Head(a) # Head(b) THEN 0
    ELSE 1 + CommonPrefixLen(Tail(a), Tail(b))

\* path::lexically_relative on canonical component sequences
LexicallyRelative(a, b) ==
    LET n    == CommonPrefixLen(a, b)
        ups  == [i \in 1..(Len(b) - n) |-> ".."]
        rest == SubSeq(a, n + 1, Len(a))
    IN  IF ups \o rest = <<>> THEN "." ELSE JoinAll("", ups \o rest)

\* fs::relative(p, base)
Relative(p, base) == LexicallyRelative(Canonical(p), Canonical(base))

(***************************************************************************)
(* main.cpp: path planning and the extension allow-list.                   *)
(***************************************************************************)
\* a getOutPath that puts the suffix after the extension
getOutPath_SuffixAfterExtension(path) ==
    Join(ParentPath(path), Filename(path) \o "-SPC")

\* getOutPath: dir / (stem + "-SPC" + extension)
getOutPath(path) ==
    LET dir   == ParentPath(path)
        fName == Stem(path) \o "-SPC" \o Extension(path)
    IN  Join(dir, fName)

\* a hasAllowedExtension that accepts any extension
hasAllowedExtension_AnyExtension(filePath) == Extension(filePath) # ""

\* hasAllowedExtension: the extension equals one of allowedExtensions
hasAllowedExtension(filePath) ==
    \E i \in 1..Len(allowedExtensions) : Extension(filePath) = allowedExtensions[i]

\* std::to_string of a non-negative int
Digit(n) == SubSeq("0123456789", n + 1, n + 1)

RECURSIVE to_string(_)
to_string(n) == IF n < 10 THEN Digit(n) ELSE to_string(n \div 10) \o Digit(n % 10)

\* getProgressStr
getProgressStr(path, currentPos, listSize) ==
    "Converting.. [" \o to_string(currentPos) \o "/" \o to_string(listSize)
        \o "].. " \o path

(***************************************************************************)
(* The inputs: argv[1] and what the file system holds there.               *)
(***************************************************************************)
DirPrefixes == {"", "a/", "/", "a/b/", "a//", "../"}
Stems       == {"c", "b.c", ".c", "c-SPC", ""}
Extensions  == {".wav", ".flac", ".ogg", ".mp3", ".MP3", ".txt", ""}

\* paths that name (or could name) a file: a non-empty file name
FileInputs ==
    {d \o s \o e : d \in DirPrefixes, s \in Stems, e \in Extensions}
        \ {d \o "" : d \in DirPrefixes}

\* paths that name the scanned directory
DirInputs == {"r", "r/", "a/r", "/r"}

\* regular files below the scanned directory, relative to it
EligibleFiles == {"x.wav", "a/y.flac", "a/b/c.mp3"}
OtherFiles    == {"a/notes.txt", "song.MP3", "a/.wav"}
\* directories below the scanned directory (one of them named like audio)
SubDirs       == {"a", "a/b", "d.ogg"}

Trees == {OtherFiles \cup S : S \in {T \in SUBSET EligibleFiles :
                                         Cardinality(T) <= MaxEligible}}

\* what libsndfile reads from a source header
Formats == {[major |-> "WAV",  sub |-> "PCM_16"],
            [major |-> "FLAC", sub |-> "PCM_24"],
            [major |-> "WAV",  sub |-> "FLOAT"]}
Rates    == {44100, 48000}
Channels == {1, 2}

Headers == [frames : 0..MaxFrames, samplerate : Rates, channels : Channels,
            format : Formats]

\* a format word that has not been set
NoFormat == [major |-> "", sub |-> ""]
\* SF_INFO before sf_open fills it, and the header of a file that did not open
NoInfo == [frames |-> -1, samplerate |-> 0, channels |-> 0, format |-> NoFormat]

\* a subformat taken without the mask
Submask_Unmasked(format) == format

\* sfinfo.format & SF_FORMAT_SUBMASK: the subformat bits alone
Submask(format) == [major |-> "", sub |-> format.sub]
\* SF_FORMAT_PCM_16 (a name TLA+ reserves the SF_ prefix of)
FORMAT_PCM_16 == [major |-> "", sub |-> "PCM_16"]
\* SF_FORMAT_WAV | SF_FORMAT_PCM_16
WavPcm16 == [major |-> "WAV", sub |-> "PCM_16"]

\* the sequences that list every element of S once
Perms(S) ==
    {f \in [1..Cardinality(S) -> S] : \A i, j \in 1..Cardinality(S) :
                                          i # j => f[i] # f[j]}

\* s begins with prefix
StartsWith(s, prefix) ==
    Len(s) >= Len(prefix) /\ SubSeq(s, 1, Len(prefix)) = prefix

VARIABLES
    inPath,          \* argv[1]
    inKind,          \* what inPath names: "missing", "file", "dir", "other"
    tree,            \* regular files below inPath, relative to it
    stale,           \* an earlier run's outputs and directories are still there
    pc,              \* the statement main, processDirectory or convert is at
    retpc,           \* where convert returns to
    fileList,        \* processDirectory: the scanned list
    fileCounter,     \* processDirectory: position in the list, from 1
    convertedDir,    \* processDirectory: the output root
    dirs,            \* directories this run created
    files,           \* files this run wrote: path -> contents
    cInPath,         \* convert: inPath
    cOutPath,        \* convert: outPath
    sfinfo,          \* convert: SF_INFO sfinfo
    inFile,          \* convert: SNDFILE* inFile
    outFile,         \* convert: SNDFILE* outFile
    fArray,          \* convert: fArray.size(), -1 while no buffer is held
    resampler,       \* convert: the arguments the resampler was built with
    sourceFile,      \* copyFile: std::ifstream sourceFile
    destinationFile, \* copyFile: std::ofstream destinationFile
    subformat,       \* Converter::subformat
    rFrames,         \* Converter::rFrames
    wFrames,         \* Converter::wFrames
    openHandles,     \* file handles the process holds open
    console,         \* lines written to std::cout and std::cerr
    hdr,             \* history: the header sf_open read for this call
    filesAtCall,     \* history: files when convert was entered
    trace,           \* history: what this call of convert has done
    calls            \* history: the (inPath, outPath) of every call of convert

world  == <<inPath, inKind, tree, stale>>
batch  == <<fileList, fileCounter, convertedDir>>
locals == <<sfinfo, inFile, outFile, fArray, resampler, sourceFile,
            destinationFile>>
member == <<subformat, rFrames, wFrames>>
args   == <<cInPath, cOutPath, retpc, hdr, filesAtCall, calls>>
vars   == <<world, batch, locals, member, args, pc, dirs, files, openHandles,
            console, trace>>

NoResampler == [src |-> 0, dst |-> 0, len |-> -1]

Init ==
    /\ \/ /\ inPath \in FileInputs
          /\ inKind \in {"file", "missing", "other"}
          /\ tree = {}
       \/ /\ inPath \in DirInputs
          /\ inKind = "dir"
          /\ tree \in Trees
    /\ stale \in BOOLEAN
    \* an earlier run over "r/" put its outputs below r itself, where this
    \* run's scan would find them: no such tree is among Trees
    /\ (inKind = "dir" /\ Filename(inPath) = "") => ~stale
    /\ pc = "main"
    /\ retpc = "none"
    /\ fileList = <<>>
    /\ fileCounter = 0
    /\ convertedDir = ""
    /\ dirs = {}
    /\ files = <<>>
    /\ cInPath = ""
    /\ cOutPath = ""
    /\ sfinfo = NoInfo
    /\ inFile = "none"
    /\ outFile = "none"
    /\ fArray = -1
    /\ resampler = NoResampler
    /\ sourceFile = "none"
    /\ destinationFile = "none"
    /\ subformat = NoFormat
    /\ rFrames = -1
    /\ wFrames = -1
    /\ openHandles = 0
    /\ console = <<>>
    /\ hdr = NoInfo
    /\ filesAtCall = <<>>
    /\ trace = {}
    /\ calls = <<>>

(***************************************************************************)
(* The file system.                                                        *)
(***************************************************************************)
\* the path a directory iterator over root reports for the entry at rel
EntryPath(root, rel) == JoinAll(root, Split(rel))

\* the regular files the input names
SourcePaths ==
    IF inKind = "file" THEN {inPath}
    ELSE IF inKind = "dir" THEN {EntryPath(inPath, r) : r \in tree}
    ELSE {}

Absent == [kind |-> "absent"]
\* what an earlier run left at a destination
Old == [kind |-> "old"]
\* the bytes of the source file at path p
SourceBytes(p) == [kind |-> "source", path |-> p]
\* a copy that a failed write cut short
Partial(p) == [kind |-> "partial", path |-> p]
\* a file libsndfile writes: the header it was opened with (a writer's frame
\* count is not taken from SF_INFO) and the items written after it
SndFile(info, items) ==
    [kind |-> "sndfile", samplerate |-> info.samplerate,
     channels |-> info.channels, format |-> info.format, items |-> items]

\* the contents of the file at path p
FileAt(p) ==
    IF p \in DOMAIN files THEN files[p]
    ELSE IF p \in SourcePaths THEN SourceBytes(p)
    ELSE IF stale THEN Old
    ELSE Absent

FilesWith(p, contents) == [q \in DOMAIN files \cup {p} |->
                              IF q = p THEN contents ELSE files[q]]

DirExists(p) == stale \/ p \in dirs

RECURSIVE Ancestors(_)
\* p and the directories above it
Ancestors(p) ==
    IF p = "" \/ p = "/" \/ ParentPath(p) = p THEN {}
    ELSE {p} \cup Ancestors(ParentPath(p))

\* sf_close, fclose: an open handle is closed; closing NULL closes nothing
Close(h) ==
    IF h = "open" THEN "closed"
    ELSE IF h = "closed" THEN "closed twice"
    ELSE h

Released(h) == IF h = "open" THEN 1 ELSE 0

(***************************************************************************)
(* main.cpp: main, processFile, processDirectory.                          *)
(***************************************************************************)
\* conv.convert(filePath, outFilePath): enter convert
Call(filePath, outFilePath, ret) ==
    /\ cInPath' = filePath
    /\ cOutPath' = outFilePath
    /\ retpc' = ret
    /\ pc' = "conv_open"
    /\ hdr' = NoInfo
    /\ filesAtCall' = files
    /\ trace' = {}
    /\ calls' = Append(calls, [inPath |-> filePath, outPath |-> outFilePath])

NoCall == UNCHANGED <<cInPath, cOutPath, retpc, hdr, filesAtCall, trace, calls>>

\* main: fs::exists(inPath) is false
MainMissing ==
    /\ pc = "main"
    /\ inKind = "missing"
    /\ console' = Append(console, inPath \o " does not exist.")
    /\ pc' = "finish"
    /\ NoCall
    /\ UNCHANGED <<world, batch, locals, member, dirs, files, openHandles>>

\* main: a regular file with an allowed extension goes to processFile, which
\* plans the output path with getOutPath and calls convert
MainFile ==
    /\ pc = "main"
    /\ inKind = "file"
    /\ hasAllowedExtension(inPath)
    /\ Call(inPath, getOutPath(inPath), "finish")
    /\ UNCHANGED <<world, batch, locals, member, dirs, files, openHandles,
                   console>>

\* main: a directory goes to processDirectory
MainDirectory ==
    /\ pc = "main"
    /\ inKind = "dir"
    /\ pc' = "scan"
    /\ NoCall
    /\ UNCHANGED <<world, batch, locals, member, dirs, files, openHandles,
                   console>>

\* main: anything else that exists is reported and left alone
MainOther ==
    /\ pc = "main"
    /\ \/ inKind = "other"
       \/ inKind = "file" /\ ~hasAllowedExtension(inPath)
    /\ console' = Append(console,
                         inPath \o " is neither a regular file nor a directory.")
    /\ pc' = "finish"
    /\ NoCall
    /\ UNCHANGED <<world, batch, locals, member, dirs, files, openHandles>>

\* main: the elapsed time is printed and main returns 0
MainFinish ==
    /\ pc = "finish"
    /\ console' = Append(console, "Execution Time")
    /\ pc' = "exit"
    /\ NoCall
    /\ UNCHANGED <<world, batch, locals, member, dirs, files, openHandles>>

\* what recursive_directory_iterator(inPath) reports: every regular file and
\* every directory below inPath
Entries ==
    {[path |-> EntryPath(inPath, r), regular |-> TRUE] : r \in tree}
        \cup {[path |-> EntryPath(inPath, r), regular |-> FALSE] : r \in SubDirs}

\* getFilePaths: the regular files with an allowed extension
getFilePaths(entries) ==
    {e.path : e \in {f \in entries : f.regular /\ hasAllowedExtension(f.path)}}

\* the orders in which recursive_directory_iterator can report a set of paths
\* below root: any order in which the paths below one directory are reported
\* together
IterationOrders(root, paths) ==
    {f \in Perms(paths) :
        \A d \in SubDirs : \A i, j, k \in DOMAIN f :
            (i < j /\ j < k /\ StartsWith(f[i], Join(EntryPath(root, d), ""))
                            /\ StartsWith(f[k], Join(EntryPath(root, d), "")))
                => StartsWith(f[j], Join(EntryPath(root, d), ""))}

\* processDirectory: the scan (recurseMode is always true), in an order the
\* iterator can produce
Scan ==
    /\ pc = "scan"
    /\ fileList' \in IterationOrders(inPath, getFilePaths(Entries))
    /\ fileCounter' = 1
    /\ pc' = "mkroot"
    /\ NoCall
    /\ UNCHANGED <<world, convertedDir, locals, member, dirs, files,
                   openHandles, console>>

\* inPath.parent_path() / (inPath.filename().string() + "-SPC")
ConvertedDir(path) == Join(ParentPath(path), Filename(path) \o "-SPC")

\* processDirectory: the output root is named and created; create_directory
\* does nothing for a directory that exists and throws when it cannot create
\* one, which nothing catches
MakeConvertedDir ==
    /\ pc = "mkroot"
    /\ convertedDir' = ConvertedDir(inPath)
    /\ \/ /\ DirExists(convertedDir')
          /\ dirs' = dirs
          /\ pc' = "loop"
       \/ /\ ~DirExists(convertedDir')
          /\ dirs' = dirs \cup {convertedDir'}
          /\ pc' = "loop"
       \/ /\ ~DirExists(convertedDir')
          /\ dirs' = dirs
          /\ pc' = "terminated"
    /\ NoCall
    /\ UNCHANGED <<world, fileList, fileCounter, locals, member, files,
                   openHandles, console>>

\* convertedDir / fs::relative(filePath, inPath)
OutFilePath(filePath) == Join(convertedDir, Relative(filePath, inPath))

\* processDirectory: one turn of the loop up to the call of convert. The
\* progress line is printed, the output path planned and its parent
\* directories created; create_directories throws when it cannot create them
LoopBody ==
    /\ pc = "loop"
    /\ fileCounter <= Len(fileList)
    /\ LET filePath    == fileList[fileCounter]
           outFilePath == OutFilePath(filePath)
           parent      == ParentPath(outFilePath)
       IN  /\ console' = Append(console,
                  getProgressStr(filePath, fileCounter, Len(fileList)))
           /\ \/ /\ DirExists(parent)
                 /\ dirs' = dirs
                 /\ Call(filePath, outFilePath, "loop")
              \/ /\ ~DirExists(parent)
                 /\ dirs' = dirs \cup Ancestors(parent)
                 /\ Call(filePath, outFilePath, "loop")
              \/ /\ ~DirExists(parent)
                 /\ dirs' = dirs
                 /\ pc' = "terminated"
                 /\ NoCall
    /\ UNCHANGED <<world, batch, locals, member, files, openHandles>>

\* processDirectory: the list is exhausted
LoopEnd ==
    /\ pc = "loop"
    /\ fileCounter > Len(fileList)
    /\ pc' = "finish"
    /\ NoCall
    /\ UNCHANGED <<world, batch, locals, member, dirs, files, openHandles,
                   console>>

(***************************************************************************)
(* converter.cpp: Converter::convert and copyFile.                         *)
(***************************************************************************)
frame == <<cInPath, cOutPath, retpc, filesAtCall, calls>>

\* a file that has just been created or truncated
Empty == [kind |-> "empty"]

\* a convert that creates the destination before it looks at inFile
ConvOpenIn_OutputFirst ==
    /\ pc = "conv_open"
    /\ files' = FilesWith(cOutPath, Empty)
    /\ \E h \in Headers \cup {NoInfo} :
          /\ hdr' = h
          /\ IF h = NoInfo
             THEN /\ inFile' = "null"
                  /\ sfinfo' = sfinfo
                  /\ openHandles' = openHandles
                  /\ console' = Append(console, "Error opening the input file.")
                  /\ pc' = "conv_ret"
             ELSE /\ inFile' = "open"
                  /\ sfinfo' = h
                  /\ openHandles' = openHandles + 1
                  /\ console' = console
                  /\ pc' = "conv_check"
    /\ UNCHANGED <<world, batch, frame, member, dirs, outFile, fArray,
                   resampler, sourceFile, destinationFile, trace>>

\* sf_open(inPath, SFM_READ, &sfinfo) and the check of its result: a file that
\* is missing, unreadable or no audio container gives NULL, and convert
\* reports it and returns; otherwise sfinfo holds the file's header
ConvOpenIn ==
    /\ pc = "conv_open"
    /\ \E h \in Headers \cup {NoInfo} :
          /\ hdr' = h
          /\ IF h = NoInfo
             THEN /\ inFile' = "null"
                  /\ sfinfo' = sfinfo
                  /\ openHandles' = openHandles
                  /\ console' = Append(console, "Error opening the input file.")
                  /\ pc' = "conv_ret"
             ELSE /\ inFile' = "open"
                  /\ sfinfo' = h
                  /\ openHandles' = openHandles + 1
                  /\ console' = console
                  /\ pc' = "conv_check"
    /\ UNCHANGED <<world, batch, frame, member, dirs, files, outFile, fArray,
                   resampler, sourceFile, destinationFile, trace>>

\* what destinationFile << sourceFile.rdbuf() leaves in the destination when
\* it runs to the end of the source
Copied(sourcePath) == FileAt(sourcePath)

\* copyFile(inPath, outPath), from the state in which convert calls it.
\* std::ifstream sourceFile(sourcePath) may fail; std::ofstream
\* destinationFile(destinationPath) creates or truncates the destination, or
\* fails; either failure throws and is reported by the handler. Otherwise
\* the source is streamed into the destination, to its end or until a write
\* fails (the stream's state is not looked at). Both streams are destroyed
\* when the try block is left, by its end or by the throw.
copyFile(sourcePath, destinationPath) ==
    \/ /\ sourceFile' = Close("open")
       /\ destinationFile' = "null"
       /\ files' = files
       /\ trace' = trace \cup {"copyFile"}
       /\ console' = console \o
              <<"[!] File is already 16 bit. Copying instead..",
                "Error copying file: Failed to open destination file">>
    \/ /\ sourceFile' = "null"
       /\ destinationFile' = destinationFile
       /\ files' = files
       /\ trace' = trace \cup {"copyFile"}
       /\ console' = console \o
              <<"[!] File is already 16 bit. Copying instead..",
                "Error copying file: Failed to open source file">>
    \/ /\ sourceFile' = Close("open")
       /\ destinationFile' = Close("open")
       /\ files' = FilesWith(destinationPath, Copied(sourcePath))
       /\ trace' = trace \cup {"copyFile", "copied"}
       /\ console' = console \o
              <<"[!] File is already 16 bit. Copying instead..">>
    \/ /\ sourceFile' = Close("open")
       /\ destinationFile' = Close("open")
       /\ files' = FilesWith(destinationPath, Partial(sourcePath))
       /\ trace' = trace \cup {"copyFile"}
       /\ console' = console \o
              <<"[!] File is already 16 bit. Copying instead..">>

\* a pass-through that returns without sf_close(inFile)
ConvPassThrough_NoClose ==
    /\ pc = "conv_check"
    /\ subformat' = Submask(sfinfo.format)
    /\ subformat' = FORMAT_PCM_16
    /\ copyFile(cInPath, cOutPath)
    /\ inFile' = inFile
    /\ openHandles' = openHandles
    /\ pc' = "conv_ret"
    /\ UNCHANGED <<world, batch, frame, rFrames, wFrames, dirs, sfinfo,
                   outFile, fArray, resampler, hdr>>

\* subformat = sfinfo.format & SF_FORMAT_SUBMASK; a PCM16 file is copied:
\* copyFile(inPath, outPath); sf_close(inFile); return
ConvPassThrough ==
    /\ pc = "conv_check"
    /\ subformat' = Submask(sfinfo.format)
    /\ subformat' = FORMAT_PCM_16
    /\ copyFile(cInPath, cOutPath)
    /\ inFile' = Close(inFile)
    /\ openHandles' = openHandles - Released(inFile)
    /\ pc' = "conv_ret"
    /\ UNCHANGED <<world, batch, frame, rFrames, wFrames, dirs, sfinfo,
                   outFile, fArray, resampler, hdr>>

\* any other file is decoded: the buffer is sized frames * channels,
\* sf_readf_double reads what the stream holds (no more than sfinfo.frames),
\* and the input is closed
ConvDecode ==
    /\ pc = "conv_check"
    /\ subformat' = Submask(sfinfo.format)
    /\ subformat' # FORMAT_PCM_16
    /\ fArray' = sfinfo.frames * sfinfo.channels
    /\ rFrames' \in 0..sfinfo.frames
    /\ inFile' = Close(inFile)
    /\ openHandles' = openHandles - Released(inFile)
    /\ trace' = trace \cup {"decode"}
    /\ pc' = "conv_encode"
    /\ UNCHANGED <<world, batch, frame, wFrames, dirs, files, sfinfo, outFile,
                   resampler, sourceFile, destinationFile, console, hdr>>

\* a descriptor that keeps the source's channel count
TargetInfo_KeepChannels(info) ==
    [info EXCEPT !.samplerate = TargetRate, !.format = WavPcm16]

\* sfinfo.samplerate = 48000; sfinfo.channels = 2;
\* sfinfo.format = SF_FORMAT_WAV | SF_FORMAT_PCM_16
TargetInfo(info) ==
    [info EXCEPT !.samplerate = TargetRate,
                 !.channels = TargetChannels,
                 !.format = WavPcm16]

\* r8b::CDSPResampler16 resampler(sfinfo.samplerate, sfinfo.samplerate,
\*                                fArray.size())
ResamplerArgs(info, len) ==
    [src |-> info.samplerate, dst |-> info.samplerate, len |-> len]

\* sf_write_double(outFile, &fArray[0], fArray.size()): nothing is written
\* through NULL or when the item count is no multiple of the channel count
Written(handle, info, len) ==
    IF handle = "open" /\ len % info.channels = 0 THEN len ELSE 0

\* the rest of convert. The descriptor is set to the target and
\* sf_open(outPath, SFM_WRITE, &sfinfo) creates or truncates the destination
\* with it, or gives NULL; the resampler is built and run over the buffer in
\* place; the buffer is written; sf_close(outFile); fArray.clear(); and
\* fArray is destroyed at the end of convert
ConvEncode ==
    /\ pc = "conv_encode"
    /\ sfinfo' = TargetInfo(sfinfo)
    /\ \E opened \in {"open", "null"} :
          /\ outFile' = Close(opened)
          /\ wFrames' = Written(opened, sfinfo', fArray)
          /\ files' = IF opened = "open"
                      THEN FilesWith(cOutPath, SndFile(sfinfo', wFrames'))
                      ELSE files
    /\ resampler' = ResamplerArgs(sfinfo', fArray)
    /\ fArray' = -1
    /\ trace' = trace \cup {"encode", "resample"}
    /\ pc' = "conv_ret"
    /\ UNCHANGED <<world, batch, frame, subformat, rFrames, dirs, inFile,
                   sourceFile, destinationFile, openHandles, console, hdr>>

\* convert has returned: its locals are gone, and a batch moves on to the
\* next file (fileCounter++)
ConvReturn ==
    /\ pc = "conv_ret"
    /\ pc' = retpc
    /\ fileCounter' = IF retpc = "loop" THEN fileCounter + 1 ELSE fileCounter
    /\ sfinfo' = NoInfo
    /\ inFile' = "none"
    /\ outFile' = "none"
    /\ fArray' = -1
    /\ resampler' = NoResampler
    /\ sourceFile' = "none"
    /\ destinationFile' = "none"
    /\ hdr' = NoInfo
    /\ trace' = {}
    /\ UNCHANGED <<world, fileList, convertedDir, frame, member, dirs, files,
                   openHandles, console>>

Next ==
    \/ MainMissing
    \/ MainFile
    \/ MainDirectory
    \/ MainOther
    \/ MainFinish
    \/ Scan
    \/ MakeConvertedDir
    \/ LoopBody
    \/ LoopEnd
    \/ ConvOpenIn
    \/ ConvPassThrough
    \/ ConvDecode
    \/ ConvEncode
    \/ ConvReturn

Spec == Init /\ [][Next]_vars

(***************************************************************************)
(* Properties.                                                             *)
(***************************************************************************)
\* convert is at its return
AtReturn == pc = "conv_ret"
\* sf_open gave a handle for the source of this call
SourceOpened == hdr # NoInfo
Pcm16Source == SourceOpened /\ hdr.format.sub = "PCM_16"
OtherSource == SourceOpened /\ hdr.format.sub # "PCM_16"
Converting == {"decode", "resample", "encode"}
EndsWith(s, suffix) ==
    Len(s) >= Len(suffix)
        /\ SubSeq(s, Len(s) - Len(suffix) + 1, Len(s)) = suffix
AllowedSet == {".wav", ".flac", ".ogg", ".mp3"}

C2_TargetDescriptor ==
    (AtReturn /\ OtherSource) =>
        /\ outFile # "none"
        /\ sfinfo.samplerate = 48000
        /\ sfinfo.channels = 2
        /\ sfinfo.format = [major |-> "WAV", sub |-> "PCM_16"]
        /\ outFile = "closed" =>
               /\ FileAt(cOutPath).kind = "sndfile"
               /\ FileAt(cOutPath).samplerate = 48000
               /\ FileAt(cOutPath).channels = 2
               /\ FileAt(cOutPath).format = [major |-> "WAV", sub |-> "PCM_16"]

C2_Witness ==
    /\ AtReturn /\ OtherSource
    /\ hdr.samplerate = 44100 /\ hdr.channels = 1 /\ hdr.format.major = "FLAC"
    /\ outFile = "closed"

\* C3: once processDirectory is over, however it ended, convert has been
\* called exactly once for each file of the scanned list, in the list's order.
C3_OneAttemptPerFile ==
    (inKind = "dir" /\ pc \in {"finish", "exit", "terminated"}) =>
        /\ Len(calls) = Len(fileList)
        /\ \A i \in DOMAIN calls : calls[i].inPath = fileList[i]

\* the directory next to the input directory, named {inputDirName}-SPC, as
\* canonical components
SiblingDir ==
    LET c == Canonical(inPath)
    IN  SubSeq(c, 1, Len(c) - 1) \o <<c[Len(c)] \o "-SPC">>

\* C4: in directory mode every destination passed to convert is the sibling
\* directory {inputDirName}-SPC joined with the source's path relative to the
\* input root, and its parent directory exists at the call.
C4_MirroredDestination ==
    (pc = "conv_open" /\ retpc = "loop") =>
        \E r \in tree :
            /\ EntryPath(inPath, r) = cInPath
            /\ Canonical(cOutPath) = SiblingDir \o Split(r)
            /\ DirExists(ParentPath(cOutPath))

\* C5: in single-file mode the destination passed to convert lies in the
\* input's directory and is named stem, then "-SPC", then the input's
\* extension.
C5_SuffixBeforeExtension ==
    (pc = "conv_open" /\ retpc = "finish") =>
        /\ cInPath = inPath
        /\ \E d \in DirPrefixes, s \in Stems \ {""}, e \in AllowedSet :
               inPath = d \o s \o e
        /\ \A d \in DirPrefixes, s \in Stems \ {""}, e \in AllowedSet :
               inPath = d \o s \o e =>
                   /\ Filename(cOutPath) = s \o "-SPC" \o e
                   /\ EndsWith(cOutPath, e)
                   /\ Canonical(ParentPath(cOutPath)) = Canonical(d)

C5_Witness ==
    /\ pc = "conv_open" /\ retpc = "finish"
    /\ inPath = "a//b.c.flac"
    /\ cOutPath = "a/b.c-SPC.flac"

\* C6: convert is only ever entered with a path whose extension is exactly
\* .wav, .flac, .ogg or .mp3: the scanned list holds no other file, and a
\* top-level file with another extension is not converted.
C6_OnlyAllowedExtensions ==
    /\ pc = "conv_open" =>
           /\ calls[Len(calls)].inPath = cInPath
           /\ Extension(cInPath) \in AllowedSet
           /\ \E e \in AllowedSet : EndsWith(cInPath, e)
    /\ pc = "mkroot" =>
           \A i \in DOMAIN fileList :
               /\ Extension(fileList[i]) \in AllowedSet
               /\ ~EndsWith(fileList[i], "notes.txt")
               /\ ~EndsWith(fileList[i], "song.MP3")
    /\ (pc = "exit" /\ inKind = "file" /\ ~(\E e \in AllowedSet :
                                                EndsWith(inPath, e)))
           => calls = <<>>

C6_Witness ==
    /\ inKind = "dir" /\ pc = "finish"
    /\ "song.MP3" \in tree /\ "a/notes.txt" \in tree
    /\ Len(calls) = 2

\* C7: when the source does not open, convert returns with every file as it
\* was at the call: nothing is at the destination that was not there before.
C7_OpenFailureTouchesNothing ==
    (AtReturn /\ inFile = "null") =>
        /\ files = filesAtCall
        /\ FileAt(cOutPath) \in {Old, Absent}
        /\ trace = {}

C7_Witness ==
    /\ AtReturn /\ inFile = "null"
    /\ cOutPath \notin DOMAIN files
    /\ retpc = "loop" /\ Len(calls) = 2

\* C8: when the decode was incomplete (fewer frames read than the header
\* declares), convert returns with no sound file written at the destination.
C8_NoOutputAfterShortRead ==
    (AtReturn /\ "decode" \in trace /\ rFrames < hdr.frames) =>
        FileAt(cOutPath).kind # "sndfile"

\* C9: the resampler is given the source header's sample rate as its source
\* rate and 48000 as its target rate.
C9_ResamplerGetsSourceRate ==
    (AtReturn /\ "resample" \in trace) =>
        /\ resampler.src = hdr.samplerate
        /\ resampler.dst = 48000

ReleasedStates == {"none", "null", "closed"}

\* C10: when convert returns, on any path, every handle it or copyFile opened
\* is closed, once, and the buffer is released; outside convert the process
\* holds no handle open.
C10_HandlesReleased ==
    /\ AtReturn =>
           /\ openHandles = 0
           /\ {inFile, outFile, sourceFile, destinationFile} \subseteq ReleasedStates
           /\ fArray = -1
    /\ pc \in {"main", "scan", "mkroot", "loop", "finish", "exit",
               "terminated", "conv_open"} => openHandles = 0

C10_Witness ==
    /\ AtReturn
    /\ inFile = "closed" /\ sourceFile = "closed" /\ destinationFile = "null"
    /\ retpc = "loop" /\ Len(calls) = 2

====
